---- MODULE Spec2Model ----
(***************************************************************************)
(* The KubevirtMachine reconciler of controllers/kubevirtmachine_controller *)
(* .go as a state machine.  One Reconcile call is one action: the          *)
(* dispatcher runs at most one call per identity at a time, and a call     *)
(* works on the copy of the object it loaded.  The collaborators (API      *)
(* reads and writes, SSH keys, VM handle, workload cluster) answer each    *)
(* call through an environment record chosen per call.                     *)
(***************************************************************************)
EXTENDS Naturals, Sequences, FiniteSets, TLC

\* Number of distinct addresses a VM may report.
NumAddrs == 2

Addrs == 1..NumAddrs

\* infrav1.MachineFinalizer is the only finalizer the reconciler handles;
\* the object carries it or not.

\* ------------------------------------------------------------------------
\* Conditions (sigs.k8s.io/cluster-api/util/conditions as used by the code)
\* ------------------------------------------------------------------------
VMProvisionedCondition == "VMProvisioned"

BootstrapExecSucceededCondition == "BootstrapExecSucceeded"

CondTypes == {VMProvisionedCondition, BootstrapExecSucceededCondition}

WaitingForClusterInfrastructureReason == "WaitingForClusterInfrastructure"

WaitingForControlPlaneAvailableReason == "WaitingForControlPlaneAvailable"

WaitingForBootstrapDataReason == "WaitingForBootstrapData"

DeletingReason == "Deleting"

BootstrappingReason == "Bootstrapping"

BootstrapFailedReason == "BootstrapFailed"

ConditionSeverityInfo == "Info"

ConditionSeverityWarning == "Warning"

\* A condition that was never set.
Absent == [status |-> "Absent", reason |-> "", severity |-> ""]

TrueCondition == [status |-> "True", reason |-> "", severity |-> ""]

FalseCondition(reason, severity) ==
    [status |-> "False", reason |-> reason, severity |-> severity]

\* LastTransitionTime of a condition, as one call sees it: never set, set
\* before the call started, or set by the call to the time it reads.
ZeroTime == "zero"

Earlier == "earlier"

Now == "now"

\* ------------------------------------------------------------------------
\* The KubevirtMachine object
\* ------------------------------------------------------------------------
NoProviderID == "nil"

\* The identifier SetProviderID returns for this machine.
TheProviderID == "kubevirt://machine"

\* The machine's name, published as its hostname.
MachineName == "machine"

NewKubevirtMachine(providerID, bootstrapped) ==
    [finalizer |-> FALSE,
     providerID |-> providerID,
     bootstrapped |-> bootstrapped,
     ready |-> FALSE,
     addresses |-> << >>,
     conds |-> [t \in CondTypes |-> Absent]]

\* Status.Addresses with the external address ahead of the internal one.
MachineAddressesExternalFirst(addr) ==
    << [type |-> "Hostname", address |-> MachineName],
       [type |-> "ExternalIP", address |-> addr],
       [type |-> "InternalIP", address |-> addr] >>

\* Status.Addresses as written at lines 268-281.
MachineAddresses(addr) ==
    << [type |-> "Hostname", address |-> MachineName],
       [type |-> "InternalIP", address |-> addr],
       [type |-> "ExternalIP", address |-> addr] >>

\* ------------------------------------------------------------------------
\* Errors and results
\* ------------------------------------------------------------------------
NoErr == "nil"

\* ctrl.Result{} is RequeueAfter = 0.
ZeroResult == 0

\* The error of a failed deferred patch, returned as it is (line 135).
ErrPatch == "patch failed"

\* The error of a failed immediate patch, wrapped at lines 250 and 322.
ErrPatchWrapped == "failed to patch KubevirtMachine"

ErrGet == "get KubevirtMachine failed"

ErrOwnerMachine == "get owner Machine failed"

ErrCluster == "get Cluster failed"

ErrNewHelper == "patch.NewHelper failed"

ErrFetchSshKeys == "failed to fetch ssh keys for cluster nodes"

ErrNewMachine == "failed to create helper for managing the externalMachine"

ErrCreateVM == "failed to create VM instance"

\* ------------------------------------------------------------------------
\* The environment of one call: what each collaborator answers.
\* ------------------------------------------------------------------------
LoadAnswers ==
    {"ok", "getErr", "ownerErr", "ownerNil", "clusterErr", "clusterNil",
     "infraMissing", "helperErr"}

GenericSecretAnswers == {"ok", "missing", "novalue"}

\* What building the workload-cluster client meets (lines 462-501): the
\* kubeconfig secret is not found, it has no value key, the kubeconfig does
\* not parse, or the client cannot be constructed.
WorkloadAnswers ==
    {"ok", "secretMissing", "valueMissing", "badKubeconfig", "clientErr"}

\* Every collaborator succeeds.
AllOk ==
    [load |-> "ok",            \* lines 69-128: the four reads and patch.NewHelper
     infraReady |-> TRUE,      \* cluster.Status.InfrastructureReady
     hasDataSecretName |-> TRUE,   \* Machine.Spec.Bootstrap.DataSecretName != nil
     isControlPlane |-> FALSE, \* util.IsControlPlaneMachine
     cpInitialized |-> FALSE,  \* ControlPlaneInitializedCondition is True
     sshPersisted |-> TRUE,    \* IsPersistedToSecret
     sshFetchOk |-> TRUE,      \* FetchPersistedKeysFromSecret
     generic |-> "ok",         \* the generic bootstrap secret
     secretCreateOk |-> TRUE,  \* the Create of the derived secret
     newMachineOk |-> TRUE,    \* kubevirthandler.NewMachine
     createOk |-> TRUE,        \* externalMachine.Create
     booted |-> TRUE,          \* externalMachine.IsBooted
     stageHelperOk |-> TRUE,   \* patch.NewHelper at line 237 / 316
     stagePatchOk |-> TRUE,    \* the immediate patch at line 249 / 321
     bootstrapProbe |-> TRUE,  \* externalMachine.IsBootstrapped
     workload |-> "ok",        \* reconcileWorkloadClusterClient
     setProviderIDOk |-> TRUE, \* externalMachine.SetProviderID
     patchOk |-> TRUE,         \* the deferred patch at line 132
     addr |-> 1]               \* externalMachine.Address

\* A call stops consulting its collaborators at the first answer that makes
\* it return, so environments that differ only in later answers give the
\* same call.  Refusals holds one environment for each first refusal.
Refusals ==
    { [AllOk EXCEPT !.load = l] : l \in LoadAnswers \ {"ok"} }
      \cup { [AllOk EXCEPT !.infraReady = FALSE] }
      \cup { [AllOk EXCEPT !.hasDataSecretName = FALSE,
                           !.isControlPlane = cp,
                           !.cpInitialized = ci] : cp, ci \in BOOLEAN }
      \cup { [AllOk EXCEPT !.sshPersisted = FALSE],
             [AllOk EXCEPT !.sshFetchOk = FALSE],
             [AllOk EXCEPT !.secretCreateOk = FALSE],
             [AllOk EXCEPT !.newMachineOk = FALSE],
             [AllOk EXCEPT !.createOk = FALSE],
             [AllOk EXCEPT !.booted = FALSE],
             [AllOk EXCEPT !.stageHelperOk = FALSE],
             [AllOk EXCEPT !.stagePatchOk = FALSE],
             [AllOk EXCEPT !.bootstrapProbe = FALSE],
             [AllOk EXCEPT !.setProviderIDOk = FALSE] }
      \cup { [AllOk EXCEPT !.generic = g] : g \in GenericSecretAnswers \ {"ok"} }
      \cup { [AllOk EXCEPT !.workload = w] : w \in WorkloadAnswers \ {"ok"} }

\* The environments in which a call can get as far as publishing the
\* addresses: no refusal, or one met after line 281.
PublishingEnvs ==
    {AllOk} \cup { e \in Refusals : e.workload # "ok" \/ ~e.setProviderIDOk }

\* The address matters only to a call that publishes it; a call that skips
\* the question it would be refused on is the call of AllOk.
Envs ==
    { [e EXCEPT !.patchOk = p, !.addr = a] :
        e \in PublishingEnvs, p \in BOOLEAN, a \in Addrs }
      \cup { [e EXCEPT !.patchOk = p] :
                e \in Refusals \ PublishingEnvs, p \in BOOLEAN }

\* ------------------------------------------------------------------------
\* The context of a call in progress
\* ------------------------------------------------------------------------
\* km: the in-memory KubevirtMachine; stored: the object as persisted;
\* deleting: DeletionTimestamp of the loaded object is set; secret / vm: the
\* derived bootstrap secret / the VM exists; ret: the call has returned;
\* res, err: what the branch returned; rerr: the error Reconcile returns;
\* exit: the return statement taken; trace: the calls made, in order, each
\* with the persisted object right after it; marks: the condition updates
\* made, in order; ltt: LastTransitionTime of each condition of km; sets:
\* the conditions.Set calls made, in order, each with the condition it found
\* and the one it was given.
NewContext(stored, deleting, secret, vm, env) ==
    [km |-> stored, stored |-> stored, deleting |-> deleting,
     secret |-> secret, vm |-> vm, env |-> env,
     ret |-> FALSE, res |-> ZeroResult, err |-> NoErr, rerr |-> NoErr,
     exit |-> "running",
     trace |-> << >>, marks |-> << >>,
     ltt |-> [t \in CondTypes |->
                 IF stored.conds[t] = Absent THEN ZeroTime ELSE Earlier],
     sets |-> << >>]

\* The element of a singleton set.
Only(S) == CHOOSE x \in S : TRUE

\* Record a collaborator call and its answer.
Call(c, op, ok) ==
    [c EXCEPT !.trace = Append(@, [op |-> op, ok |-> ok, stored |-> c.stored])]

\* return res, err
Return(c, exit, res, err) ==
    [c EXCEPT !.ret = TRUE, !.exit = exit, !.res = res, !.err = err]

\* hasSameState comparing the status alone.
hasSameStatus(i, j) == i.status = j.status

\* hasSameState of conditions.Set: type, status, reason, severity and
\* message (every reason of this controller has one fixed message).
hasSameState(i, j) ==
    i.status = j.status /\ i.reason = j.reason /\ i.severity = j.severity

\* conditions.Set, which MarkTrue and MarkFalse call with a condition whose
\* LastTransitionTime is zero: a condition found in another state is
\* replaced and its time set to the current time; one found in the same
\* state keeps its time; one not found is added with the current time.
Set(c, t, condition) ==
    LET existing == c.km.conds[t]
        renew == existing = Absent \/ ~hasSameState(existing, condition)
    IN  [c EXCEPT !.km.conds[t] = IF renew THEN condition ELSE @,
                  !.ltt[t] = IF renew THEN Now ELSE @,
                  !.sets = Append(@, [type |-> t, from |-> existing,
                                      to |-> condition, renewed |-> renew])]

\* conditions.MarkTrue
MarkTrue(c, t) ==
    [Set(c, t, TrueCondition)
        EXCEPT !.marks = Append(@, [type |-> t, status |-> "True", reason |-> ""])]

\* conditions.MarkFalse
MarkFalse(c, t, reason, severity) ==
    [Set(c, t, FalseCondition(reason, severity))
        EXCEPT !.marks = Append(@, [type |-> t, status |-> "False", reason |-> reason])]

\* conditions.Has
Has(km, t) == km.conds[t] # Absent

\* MachineContext.PatchKubevirtMachine: the in-memory object replaces the
\* persisted one, or the patch fails and the persisted one stays.
PatchKubevirtMachine(c, ok) ==
    Call(IF ok THEN [c EXCEPT !.stored = c.km] ELSE c, "PatchKubevirtMachine", ok)

\* ------------------------------------------------------------------------
\* reconcileKubevirtBootstrapSecret (lines 395-460)
\* ------------------------------------------------------------------------
ErrNoDataSecretName == "linked Machine's bootstrap.dataSecretName is nil"

ErrGetBootstrapSecret == "failed to retrieve bootstrap data secret"

ErrNoValueKey == "secret value key is missing"

ErrCreateBootstrapSecret == "failed to create kubevirt bootstrap secret for cluster"

\* The bytes under the value key of the generic bootstrap secret.
GenericValue == "cloud-config"

\* The object handed to Create: type and data of lines 431-434, the owner
\* reference of lines 438-445.
NewBootstrapDataSecret ==
    [type |-> "cluster.x-k8s.io/secret",
     data |-> [userdata |-> GenericValue],
     owner |-> MachineName]

\* client.Create of the derived secret, with the object created.
Create(c, ok) ==
    [c EXCEPT !.trace = Append(@, [op |-> "CreateDerivedSecret", ok |-> ok,
                                   stored |-> c.stored,
                                   object |-> NewBootstrapDataSecret])]

\* The nested controllerutil.CreateOrUpdate calls of lines 430-457, entered
\* with the derived secret absent.  The outer call reads the secret (not
\* found) and runs its mutate function, which sets type and data and calls
\* CreateOrUpdate again on the same object: that inner call reads it (not
\* found), sets the owner reference and creates it.  Back in the outer call
\* the object is created a second time; the API refuses the Create of an
\* object that exists.
CreateOrUpdate(c) ==
    LET inner == Create([c EXCEPT !.secret = c.env.secretCreateOk],
                        c.env.secretCreateOk)
    IN  IF ~c.env.secretCreateOk
        THEN [c |-> inner, err |-> ErrCreateBootstrapSecret]
        ELSE [c |-> Create(inner, FALSE),
              err |-> ErrCreateBootstrapSecret]

reconcileKubevirtBootstrapSecret(c) ==
    IF ~c.env.hasDataSecretName
    THEN [c |-> c, err |-> ErrNoDataSecretName]
    ELSE LET c1 == Call(c, "GetDerivedSecret", c.secret)
         IN  IF c.secret
             THEN [c |-> c1, err |-> NoErr]
             ELSE LET c2 == Call(c1, "GetGenericSecret", c.env.generic # "missing")
                  IN  IF c.env.generic = "missing"
                      THEN [c |-> c2, err |-> ErrGetBootstrapSecret]
                      ELSE LET c3 == Call(c2, "LookupValue", c.env.generic # "novalue")
                           IN  IF c.env.generic = "novalue"
                               THEN [c |-> c3, err |-> ErrNoValueKey]
                               ELSE CreateOrUpdate(c3)

\* ------------------------------------------------------------------------
\* reconcileNormal (lines 162-311), one operator per stage
\* ------------------------------------------------------------------------
RequeueSshKeys == 10

RequeueBoot == 20

RequeueBootstrap == 10

RequeueWorkloadClient == 10

RequeueProviderID == 5

\* AlreadyProvisioned with the return of line 169 left out.
AlreadyProvisionedFallThrough(c) ==
    IF c.km.providerID # NoProviderID
    THEN MarkTrue([c EXCEPT !.km.ready = TRUE], VMProvisionedCondition)
    ELSE c

\* lines 163-170
AlreadyProvisioned(c) ==
    IF c.km.providerID # NoProviderID
    THEN Return(MarkTrue([c EXCEPT !.km.ready = TRUE], VMProvisionedCondition),
                "Provisioned", ZeroResult, NoErr)
    ELSE c

\* BootstrapDataGate with the conjunction of line 174 turned into a
\* disjunction.
BootstrapDataGateEither(c) ==
    IF ~c.env.hasDataSecretName
    THEN IF ~c.env.isControlPlane \/ ~c.env.cpInitialized
         THEN Return(MarkFalse(c, VMProvisionedCondition,
                               WaitingForControlPlaneAvailableReason,
                               ConditionSeverityInfo),
                     "WaitingForControlPlane", ZeroResult, NoErr)
         ELSE Return(MarkFalse(c, VMProvisionedCondition,
                               WaitingForBootstrapDataReason,
                               ConditionSeverityInfo),
                     "WaitingForBootstrapData", ZeroResult, NoErr)
    ELSE c

\* lines 172-183
BootstrapDataGate(c) ==
    IF ~c.env.hasDataSecretName
    THEN IF ~c.env.isControlPlane /\ ~c.env.cpInitialized
         THEN Return(MarkFalse(c, VMProvisionedCondition,
                               WaitingForControlPlaneAvailableReason,
                               ConditionSeverityInfo),
                     "WaitingForControlPlane", ZeroResult, NoErr)
         ELSE Return(MarkFalse(c, VMProvisionedCondition,
                               WaitingForBootstrapDataReason,
                               ConditionSeverityInfo),
                     "WaitingForBootstrapData", ZeroResult, NoErr)
    ELSE c

\* SshKeys marking the wait for the keys as a wait for bootstrap data.
SshKeysMarkingWait(c) ==
    LET c1 == Call(c, "IsPersistedToSecret", c.env.sshPersisted)
    IN  IF ~c.env.sshPersisted
        THEN Return(MarkFalse(c1, VMProvisionedCondition,
                              WaitingForBootstrapDataReason,
                              ConditionSeverityInfo),
                    "SshKeysNotPersisted", RequeueSshKeys, NoErr)
        ELSE LET c2 == Call(c1, "FetchPersistedKeysFromSecret", c.env.sshFetchOk)
             IN  IF ~c.env.sshFetchOk
                 THEN Return(c2, "SshKeysFetchFailed", ZeroResult, ErrFetchSshKeys)
                 ELSE c2

\* lines 192-200
SshKeys(c) ==
    LET c1 == Call(c, "IsPersistedToSecret", c.env.sshPersisted)
    IN  IF ~c.env.sshPersisted
        THEN Return(c1, "SshKeysNotPersisted", RequeueSshKeys, NoErr)
        ELSE LET c2 == Call(c1, "FetchPersistedKeysFromSecret", c.env.sshFetchOk)
             IN  IF ~c.env.sshFetchOk
                 THEN Return(c2, "SshKeysFetchFailed", ZeroResult, ErrFetchSshKeys)
                 ELSE c2

\* BootstrapSecret returning without the MarkFalse of line 204.
BootstrapSecretUnmarked(c) ==
    LET r == reconcileKubevirtBootstrapSecret(c)
    IN  IF r.err # NoErr
        THEN Return(r.c, "BootstrapSecretFailed", ZeroResult, NoErr)
        ELSE r.c

\* lines 202-206
BootstrapSecret(c) ==
    LET r == reconcileKubevirtBootstrapSecret(c)
    IN  IF r.err # NoErr
        THEN Return(MarkFalse(r.c, VMProvisionedCondition,
                              WaitingForBootstrapDataReason,
                              ConditionSeverityInfo),
                    "BootstrapSecretFailed", ZeroResult, NoErr)
        ELSE r.c

\* ProvisionVM creating the VM without asking the handle whether it exists.
ProvisionVMUnconditionally(c) ==
    LET c1 == Call(c, "NewMachine", c.env.newMachineOk)
    IN  IF ~c.env.newMachineOk
        THEN Return(c1, "NewMachineFailed", ZeroResult, ErrNewMachine)
        ELSE LET c3 == Call([c1 EXCEPT !.vm = c.vm \/ c.env.createOk],
                            "Create", c.env.createOk)
             IN  IF ~c.env.createOk
                 THEN Return(c3, "CreateFailed", ZeroResult, ErrCreateVM)
                 ELSE c3

\* lines 208-220
ProvisionVM(c) ==
    LET c1 == Call(c, "NewMachine", c.env.newMachineOk)
    IN  IF ~c.env.newMachineOk
        THEN Return(c1, "NewMachineFailed", ZeroResult, ErrNewMachine)
        ELSE LET c2 == Call(c1, "Exists", c.vm)
             IN  IF c.vm
                 THEN c2
                 ELSE LET c3 == Call([c2 EXCEPT !.vm = c.env.createOk],
                                     "Create", c.env.createOk)
                      IN  IF ~c.env.createOk
                          THEN Return(c3, "CreateFailed", ZeroResult, ErrCreateVM)
                          ELSE c3

\* BootWait taking back VMProvisioned while the VM has not booted.
BootWaitUnprovisioning(c) ==
    LET c1 == Call(c, "IsBooted", c.env.booted)
    IN  IF ~c.env.booted
        THEN Return(MarkFalse(c1, VMProvisionedCondition,
                              WaitingForBootstrapDataReason,
                              ConditionSeverityInfo),
                    "NotBooted", RequeueBoot, NoErr)
        ELSE c1

\* lines 222-232
BootWait(c) ==
    LET c1 == Call(c, "IsBooted", c.env.booted)
    IN  IF ~c.env.booted
        THEN Return(c1, "NotBooted", RequeueBoot, NoErr)
        ELSE c1

\* MarkProvisioned going on to the bootstrap stage when the immediate patch
\* fails.
MarkProvisionedIgnoringPatchError(c) ==
    LET c1 == Call(c, "NewHelper", c.env.stageHelperOk)
    IN  IF ~c.env.stageHelperOk
        THEN Return(c1, "StageHelperFailed", ZeroResult, ErrNewHelper)
        ELSE LET c2 == MarkTrue(c1, VMProvisionedCondition)
             IN  IF ~Has(c2.km, BootstrapExecSucceededCondition)
                 THEN PatchKubevirtMachine(
                          MarkFalse(c2, BootstrapExecSucceededCondition,
                                    BootstrappingReason,
                                    ConditionSeverityInfo),
                          c.env.stagePatchOk)
                 ELSE c2

\* lines 234-252
MarkProvisioned(c) ==
    LET c1 == Call(c, "NewHelper", c.env.stageHelperOk)
    IN  IF ~c.env.stageHelperOk
        THEN Return(c1, "StageHelperFailed", ZeroResult, ErrNewHelper)
        ELSE LET c2 == MarkTrue(c1, VMProvisionedCondition)
             IN  IF ~Has(c2.km, BootstrapExecSucceededCondition)
                 THEN LET c3 == PatchKubevirtMachine(
                                  MarkFalse(c2, BootstrapExecSucceededCondition,
                                            BootstrappingReason,
                                            ConditionSeverityInfo),
                                  c.env.stagePatchOk)
                      IN  IF ~c.env.stagePatchOk
                          THEN Return(c3, "StagePatchFailed", ZeroResult,
                                      ErrPatchWrapped)
                          ELSE c3
                 ELSE c2

\* BootstrapWait probing on every call and storing the answer.
BootstrapWaitReprobing(c) ==
    LET c1 == Call(c, "IsBootstrapped", c.env.bootstrapProbe)
    IN  IF ~c.env.bootstrapProbe
        THEN Return(MarkFalse([c1 EXCEPT !.km.bootstrapped = FALSE],
                              BootstrapExecSucceededCondition,
                              BootstrapFailedReason,
                              ConditionSeverityWarning),
                    "NotBootstrapped", RequeueBootstrap, NoErr)
        ELSE [c1 EXCEPT !.km.bootstrapped = TRUE]

\* BootstrapWait probing whatever the bootstrapped flag says.
BootstrapWaitIgnoringFlag(c) ==
    LET c1 == Call(c, "IsBootstrapped", c.env.bootstrapProbe)
    IN  IF ~c.env.bootstrapProbe
        THEN Return(MarkFalse(c1, BootstrapExecSucceededCondition,
                              BootstrapFailedReason,
                              ConditionSeverityWarning),
                    "NotBootstrapped", RequeueBootstrap, NoErr)
        ELSE [c1 EXCEPT !.km.bootstrapped = TRUE]

\* lines 254-263
BootstrapWait(c) ==
    IF ~c.km.bootstrapped
    THEN LET c1 == Call(c, "IsBootstrapped", c.env.bootstrapProbe)
         IN  IF ~c.env.bootstrapProbe
             THEN Return(MarkFalse(c1, BootstrapExecSucceededCondition,
                                   BootstrapFailedReason,
                                   ConditionSeverityWarning),
                         "NotBootstrapped", RequeueBootstrap, NoErr)
             ELSE [c1 EXCEPT !.km.bootstrapped = TRUE]
    ELSE c

\* externalMachine.Address as read at lines 275 and 279, with its answer.
Address(c) ==
    [c EXCEPT !.trace = Append(@, [op |-> "Address", ok |-> TRUE,
                                   stored |-> c.stored,
                                   address |-> c.env.addr])]

\* lines 265-281
PublishAddresses(c) ==
    [Address(MarkTrue(c, BootstrapExecSucceededCondition))
        EXCEPT !.km.addresses = MachineAddresses(c.env.addr)]

ErrFetchKubeconfig == "failed to fetch kubeconfig for workload cluster"

ErrKubeconfigValue == "error retrieving kubeconfig data: secret value key is missing"

ErrGetKubeconfig == "failed to get kubeconfig for workload cluster"

ErrRESTConfig == "failed to create REST config"

ErrNewClient == "failed to create workload cluster client"

\* lines 462-478
getKubeconfigForWorkloadCluster(c) ==
    LET c1 == Call(c, "GetKubeconfigSecret", c.env.workload # "secretMissing")
    IN  IF c.env.workload = "secretMissing"
        THEN [c |-> c1, err |-> ErrFetchKubeconfig]
        ELSE IF c.env.workload = "valueMissing"
        THEN [c |-> c1, err |-> ErrKubeconfigValue]
        ELSE [c |-> c1, err |-> NoErr]

\* lines 480-501; client: the client returned is not nil.
reconcileWorkloadClusterClient(c) ==
    LET r == getKubeconfigForWorkloadCluster(c)
    IN  IF r.err # NoErr
        THEN [c |-> r.c, client |-> FALSE, err |-> ErrGetKubeconfig]
        ELSE LET c2 == Call(r.c, "RESTConfigFromKubeConfig",
                            c.env.workload # "badKubeconfig")
             IN  IF c.env.workload = "badKubeconfig"
                 THEN [c |-> c2, client |-> FALSE, err |-> ErrRESTConfig]
                 ELSE LET c3 == Call(c2, "NewClient", c.env.workload # "clientErr")
                      IN  IF c.env.workload = "clientErr"
                          THEN [c |-> c3, client |-> FALSE, err |-> ErrNewClient]
                          ELSE [c |-> c3, client |-> TRUE, err |-> NoErr]

\* WorkloadClusterClient logging the error and going on without the test
\* of line 292.
WorkloadClusterClientLoggingOnly(c) ==
    reconcileWorkloadClusterClient(c).c

\* lines 283-296
WorkloadClusterClient(c) ==
    LET r == reconcileWorkloadClusterClient(c)
    IN  IF ~r.client
        THEN Return(r.c, "WorkloadClientUnavailable", RequeueWorkloadClient, NoErr)
        ELSE r.c

\* RegisterProviderID taking the identifier whatever SetProviderID answers.
RegisterProviderIDIgnoringError(c) ==
    LET c1 == Call(c, "SetProviderID", c.env.setProviderIDOk)
    IN  Return(MarkTrue([c1 EXCEPT !.km.providerID = TheProviderID,
                                   !.km.ready = TRUE],
                        VMProvisionedCondition),
               "Ready", ZeroResult, NoErr)

\* RegisterProviderID declaring the machine ready while SetProviderID fails.
RegisterProviderIDReadyOnFailure(c) ==
    LET c1 == Call(c, "SetProviderID", c.env.setProviderIDOk)
    IN  IF ~c.env.setProviderIDOk
        THEN Return([c1 EXCEPT !.km.ready = TRUE],
                    "SetProviderIDFailed", RequeueProviderID, NoErr)
        ELSE Return(MarkTrue([c1 EXCEPT !.km.providerID = TheProviderID,
                                        !.km.ready = TRUE],
                             VMProvisionedCondition),
                    "Ready", ZeroResult, NoErr)

\* lines 298-310
RegisterProviderID(c) ==
    LET c1 == Call(c, "SetProviderID", c.env.setProviderIDOk)
    IN  IF ~c.env.setProviderIDOk
        THEN Return(c1, "SetProviderIDFailed", RequeueProviderID, NoErr)
        ELSE Return(MarkTrue([c1 EXCEPT !.km.providerID = TheProviderID,
                                        !.km.ready = TRUE],
                             VMProvisionedCondition),
                    "Ready", ZeroResult, NoErr)

\* The stages of reconcileNormal in the order of the code.
NumStages == 11

Stage(k, c) ==
    CASE k = 1 -> AlreadyProvisioned(c)
      [] k = 2 -> BootstrapDataGate(c)
      [] k = 3 -> SshKeys(c)
      [] k = 4 -> BootstrapSecret(c)
      [] k = 5 -> ProvisionVM(c)
      [] k = 6 -> BootWait(c)
      [] k = 7 -> MarkProvisioned(c)
      [] k = 8 -> BootstrapWait(c)
      [] k = 9 -> PublishAddresses(c)
      [] k = 10 -> WorkloadClusterClient(c)
      [] k = 11 -> RegisterProviderID(c)

\* Stages k, k+1, ... in sequence, up to the first that returns.  The
\* singleton set binds s to the context stage k leaves, so that each stage
\* is evaluated once.
RECURSIVE StagesFrom(_, _)
StagesFrom(k, c) ==
    IF c.ret \/ k > NumStages
    THEN c
    ELSE Only({ StagesFrom(k + 1, s) : s \in { Stage(k, c) } })

reconcileNormal(c) == StagesFrom(1, c)

\* ------------------------------------------------------------------------
\* reconcileDelete (lines 313-329)
\* ------------------------------------------------------------------------
\* reconcileDelete with the error of the immediate patch ignored.
reconcileDeleteIgnoringPatchError(c) ==
    LET c1 == Call(c, "NewHelper", c.env.stageHelperOk)
    IN  IF ~c.env.stageHelperOk
        THEN Return(c1, "DeleteHelperFailed", ZeroResult, ErrNewHelper)
        ELSE LET c2 == PatchKubevirtMachine(
                         MarkFalse(c1, VMProvisionedCondition, DeletingReason,
                                   ConditionSeverityInfo),
                         c.env.stagePatchOk)
             IN  Return(Call([c2 EXCEPT !.km.finalizer = FALSE],
                             "RemoveFinalizer", TRUE),
                        "Deleted", ZeroResult, NoErr)

\* reconcileDelete without the RemoveFinalizer of line 326.
reconcileDeleteKeepingFinalizer(c) ==
    LET c1 == Call(c, "NewHelper", c.env.stageHelperOk)
    IN  IF ~c.env.stageHelperOk
        THEN Return(c1, "DeleteHelperFailed", ZeroResult, ErrNewHelper)
        ELSE LET c2 == PatchKubevirtMachine(
                         MarkFalse(c1, VMProvisionedCondition, DeletingReason,
                                   ConditionSeverityInfo),
                         c.env.stagePatchOk)
             IN  IF ~c.env.stagePatchOk
                 THEN Return(c2, "DeletePatchFailed", ZeroResult, ErrPatchWrapped)
                 ELSE Return(c2, "Deleted", ZeroResult, NoErr)

\* lines 313-329
reconcileDelete(c) ==
    LET c1 == Call(c, "NewHelper", c.env.stageHelperOk)
    IN  IF ~c.env.stageHelperOk
        THEN Return(c1, "DeleteHelperFailed", ZeroResult, ErrNewHelper)
        ELSE LET c2 == PatchKubevirtMachine(
                         MarkFalse(c1, VMProvisionedCondition, DeletingReason,
                                   ConditionSeverityInfo),
                         c.env.stagePatchOk)
             IN  IF ~c.env.stagePatchOk
                 THEN Return(c2, "DeletePatchFailed", ZeroResult, ErrPatchWrapped)
                 ELSE Return(Call([c2 EXCEPT !.km.finalizer = FALSE],
                                  "RemoveFinalizer", TRUE),
                             "Deleted", ZeroResult, NoErr)

\* ------------------------------------------------------------------------
\* Reconcile (lines 64-160)
\* ------------------------------------------------------------------------
\* FinalizerGate with the return of line 143 left out.
FinalizerGateFallThrough(c) ==
    IF ~c.km.finalizer
    THEN Call([c EXCEPT !.km.finalizer = TRUE], "AddFinalizer", TRUE)
    ELSE c

\* lines 140-144
FinalizerGate(c) ==
    IF ~c.km.finalizer
    THEN Return(Call([c EXCEPT !.km.finalizer = TRUE], "AddFinalizer", TRUE),
                "FinalizerAdded", ZeroResult, NoErr)
    ELSE c

\* InfrastructureGate letting machines marked for deletion through.
InfrastructureGateSkippedOnDelete(c) ==
    IF ~c.env.infraReady /\ ~c.deleting
    THEN Return(MarkFalse(c, VMProvisionedCondition,
                          WaitingForClusterInfrastructureReason,
                          ConditionSeverityInfo),
                "WaitingForInfrastructure", ZeroResult, NoErr)
    ELSE c

\* lines 146-151
InfrastructureGate(c) ==
    IF ~c.env.infraReady
    THEN Return(MarkFalse(c, VMProvisionedCondition,
                          WaitingForClusterInfrastructureReason,
                          ConditionSeverityInfo),
                "WaitingForInfrastructure", ZeroResult, NoErr)
    ELSE c

\* lines 153-159
Branch(c) ==
    IF c.deleting THEN reconcileDelete(c) ELSE reconcileNormal(c)

\* DeferredPatch skipped when the branch returned an error.
DeferredPatchOnSuccessOnly(c) ==
    IF c.err # NoErr
    THEN [c EXCEPT !.rerr = c.err]
    ELSE [PatchKubevirtMachine(c, c.env.patchOk)
             EXCEPT !.rerr = IF ~c.env.patchOk THEN ErrPatch ELSE c.err]

\* DeferredPatch with the test of line 134 left out: the last error wins.
DeferredPatchLastErrorWins(c) ==
    [PatchKubevirtMachine(c, c.env.patchOk)
        EXCEPT !.rerr = IF ~c.env.patchOk THEN ErrPatch ELSE c.err]

\* lines 130-138: the deferred patch and the error Reconcile returns.
DeferredPatch(c) ==
    [PatchKubevirtMachine(c, c.env.patchOk)
        EXCEPT !.rerr = IF ~c.env.patchOk /\ c.err = NoErr THEN ErrPatch ELSE c.err]

\* A return before the deferred patch is installed.
ReturnEarly(c, exit, err) ==
    [Return(c, exit, ZeroResult, err) EXCEPT !.rerr = err]

\* lines 67-128: the reads of the KubevirtMachine, its owner Machine, the
\* Cluster and the KubevirtCluster, and the patch helper.
Load(c, exists) ==
    LET load == c.env.load
        g == Call(c, "GetKubevirtMachine", exists /\ load # "getErr")
        m == Call(g, "GetOwnerMachine", load \notin {"ownerErr", "ownerNil"})
        cl == Call(m, "GetClusterFromMetadata", load \notin {"clusterErr", "clusterNil"})
        kc == Call(cl, "GetKubevirtCluster", load # "infraMissing")
        h == Call(kc, "NewHelper", load # "helperErr")
    IN  IF ~exists THEN ReturnEarly(g, "NotFound", NoErr)
        ELSE IF load = "getErr" THEN ReturnEarly(g, "GetFailed", ErrGet)
        ELSE IF load = "ownerErr" THEN ReturnEarly(m, "OwnerMachineFailed", ErrOwnerMachine)
        ELSE IF load = "ownerNil" THEN ReturnEarly(m, "NoOwnerMachine", NoErr)
        ELSE IF load = "clusterErr" THEN ReturnEarly(cl, "ClusterFailed", ErrCluster)
        ELSE IF load = "clusterNil" THEN ReturnEarly(cl, "NoCluster", NoErr)
        ELSE IF load = "infraMissing" THEN ReturnEarly(kc, "NoKubevirtCluster", NoErr)
        ELSE IF load = "helperErr" THEN ReturnEarly(h, "HelperFailed", ErrNewHelper)
        ELSE h

\* lines 140-159: the gates and the branch, up to the first that returns.
Body(c) ==
    Only({ IF f.ret
           THEN f
           ELSE Only({ IF g.ret THEN g ELSE Branch(g) :
                       g \in { InfrastructureGate(f) } }) :
           f \in { FinalizerGate(c) } })

\* One whole call of Reconcile: a return of the entry sequence, or the body
\* followed by the deferred patch.
ReconcileCall(obj, exists, deleting, sec, v, env) ==
    Only({ IF l.ret
           THEN l
           ELSE Only({ DeferredPatch(b) : b \in { Body(l) } }) :
           l \in { Load(NewContext(obj, deleting, sec, v, env), exists) } })

\* ------------------------------------------------------------------------
\* KubevirtClusterToKubevirtMachines (lines 361-392)
\* ------------------------------------------------------------------------
\* Number of Machines the API may hold.
NumMachines == 2

Namespaces == {"ns1", "ns2"}

ClusterNames == {"c1", "c2"}

\* A KubevirtCluster without an owner reference to a Cluster; a Machine
\* without the cluster-name label.
NoOwner == "none"

NoLabel == "none"

\* Object names are numbers.  Machines are named 1..NumMachines; the
\* infrastructure reference of Machine k is empty (0), names a
\* KubevirtMachine that has the Machine's own name (k), or names one with a
\* name of its own (k + NumMachines).
MachineNames == 1..NumMachines

EmptyName == 0

InfrastructureRefs(k) == {EmptyName, k, k + NumMachines}

\* The sets of Machines the API may hold: each name at most once, each
\* Machine in a namespace, with or without the cluster-name label, with a
\* reference of its own.
MachineSets ==
    { { [namespace |-> ns[k], name |-> k, cluster |-> cl[k],
         infrastructureRef |-> ref[k]] : k \in { j \in MachineNames : present[j] } } :
        ns \in [MachineNames -> Namespaces],
        cl \in [MachineNames -> ClusterNames \cup {NoLabel}],
        ref \in { r \in [MachineNames -> 0..(2 * NumMachines)] :
                    \A k \in MachineNames : r[k] \in InfrastructureRefs(k) },
        present \in [MachineNames -> BOOLEAN] }

\* What util.GetOwnerCluster meets.
LookupAnswers == {"ok", "notFound", "err"}

ErrGetOwnerCluster == "get owner Cluster failed"

ErrNotFound == "not found"

NoCluster == "nil"

\* util.GetOwnerCluster (line 370): the Cluster the owner reference names,
\* nil without an owner reference.
GetOwnerCluster(o, lookup) ==
    IF o.owner = NoOwner THEN [cluster |-> NoCluster, err |-> NoErr]
    ELSE IF lookup = "notFound" THEN [cluster |-> NoCluster, err |-> ErrNotFound]
    ELSE IF lookup = "err" THEN [cluster |-> NoCluster, err |-> ErrGetOwnerCluster]
    ELSE [cluster |-> o.owner, err |-> NoErr]

\* client.List with InNamespace and MatchingLabels (line 380), in the order
\* of the names.
RECURSIVE ByName(_)
ByName(ms) ==
    IF ms = {} THEN << >>
    ELSE LET m == CHOOSE m \in ms : \A n \in ms : m.name <= n.name
         IN  << m >> \o ByName(ms \ {m})

List(ms, namespace, cluster) ==
    ByName({ m \in ms : m.namespace = namespace /\ m.cluster = cluster })

\* The request of line 387 naming the KubevirtMachine the Machine refers
\* to.
KubevirtMachineKey(m) ==
    [namespace |-> m.namespace, name |-> m.infrastructureRef]

\* lines 387-388
Request(m) == [namespace |-> m.namespace, name |-> m.name]

\* The loop of lines 383-389 from item i on.
RECURSIVE Requests(_, _, _)
Requests(items, i, result) ==
    IF i > Len(items) THEN result
    ELSE IF items[i].infrastructureRef = EmptyName
    THEN Requests(items, i + 1, result)
    ELSE Requests(items, i + 1, Append(result, Request(items[i])))

\* lines 363-392
KubevirtClusterToKubevirtMachines(ms, o, lookup, listOk) ==
    LET owner == GetOwnerCluster(o, lookup)
    IN  IF owner.err = ErrNotFound \/ owner.cluster = NoCluster THEN << >>
        ELSE IF owner.err # NoErr THEN << >>
        ELSE IF ~listOk THEN << >>
        ELSE Requests(List(ms, o.namespace, owner.cluster), 1, << >>)

\* The KubevirtMachines of the API: one for each Machine with an
\* infrastructure reference, under the name the reference gives.
KubevirtMachineKeys(ms) ==
    { KubevirtMachineKey(m) : m \in { n \in ms : n.infrastructureRef # EmptyName } }

\* No call of the mapping function yet.
NoMapping ==
    [called |-> FALSE, o |-> [namespace |-> "ns1", owner |-> NoOwner],
     lookup |-> "ok", listOk |-> TRUE, result |-> << >>]

\* ------------------------------------------------------------------------
\* The state machine
\* ------------------------------------------------------------------------
VARIABLES
    stored,             \* the KubevirtMachine as persisted by the API
    exists,             \* the record has not been purged
    deletionTimestamp,  \* the record is marked for deletion
    secret,             \* the derived bootstrap secret exists
    vm,                 \* the VM exists
    last,               \* the last Reconcile call: what it loaded and did
    machines,           \* the Machines of the API, as the mapping function lists them
    mapping,            \* the last call of the mapping function
    queued,             \* the dispatcher's queue holds the request of this Machine
    healthy             \* the collaborators succeed from now on

vars == << stored, exists, deletionTimestamp, secret, vm, last, machines, mapping,
           queued, healthy >>

\* What is kept of a finished call: the object it loaded, what it read of
\* the Cluster and the owner Machine, what existed when it started, the
\* object in memory at return, and what it returned and did.  Two fields
\* remember the calls before it: retried, the call before it ended on a
\* failed SetProviderID; probed, the bootstrap probe answered true in a
\* call before it.
Summary(c, loaded, called) ==
    [called |-> called, loaded |-> loaded, deleting |-> c.deleting,
     existed |-> exists, load |-> c.env.load,
     infraReady |-> c.env.infraReady,
     hasDataSecretName |-> c.env.hasDataSecretName,
     isControlPlane |-> c.env.isControlPlane,
     cpInitialized |-> c.env.cpInitialized,
     hadSecret |-> IF called THEN secret ELSE FALSE,
     hadVM |-> IF called THEN vm ELSE FALSE,
     km |-> c.km, exit |-> c.exit, res |-> c.res, err |-> c.err,
     rerr |-> c.rerr, trace |-> c.trace, marks |-> c.marks,
     ltt |-> c.ltt, sets |-> c.sets,
     retried |-> FALSE, probed |-> FALSE]

\* A machine as its owner creates it.
FreshMachine == NewKubevirtMachine(NoProviderID, FALSE)

\* A provisioned machine after a move to this cluster: the spec is carried
\* over, the status is not (lines 165-166).
MovedMachine == NewKubevirtMachine(TheProviderID, TRUE)

Init ==
    /\ stored \in {FreshMachine, MovedMachine}
    /\ exists = TRUE
    /\ deletionTimestamp = FALSE
    /\ secret = (stored = MovedMachine)
    /\ vm = (stored = MovedMachine)
    /\ last = Summary(NewContext(stored, FALSE, FALSE, FALSE, AllOk), stored, FALSE)
    /\ machines = {}
    /\ mapping = NoMapping
    /\ queued = TRUE
    /\ healthy = FALSE

\* The bootstrap probe answered true in the calls of tr.
ProbeAnsweredTrue(tr) ==
    \E i \in DOMAIN tr : tr[i].op = "IsBootstrapped" /\ tr[i].ok

\* The dispatcher invokes Reconcile.
Reconcile ==
    \E env \in Envs :
        \E c \in { ReconcileCall(stored, exists, deletionTimestamp, secret, vm, env) } :
            /\ stored' = c.stored
            /\ secret' = c.secret
            /\ vm' = c.vm
            /\ last' = [Summary(c, stored, TRUE) EXCEPT
                            !.retried = last.exit = "SetProviderIDFailed",
                            !.probed = last.probed \/ ProbeAnsweredTrue(last.trace)]
            /\ UNCHANGED << exists, deletionTimestamp, machines, mapping,
                            queued, healthy >>

\* The API layer marks the record for deletion; the update event of the
\* KubevirtMachine puts its request in the queue (line 339).
RequestDeletion ==
    /\ exists
    /\ ~deletionTimestamp
    /\ deletionTimestamp' = TRUE
    /\ queued' = TRUE
    /\ UNCHANGED << stored, exists, secret, vm, last, machines, mapping, healthy >>

\* The API layer purges a record marked for deletion that has no finalizer;
\* the delete event puts its request in the queue (line 339).
Purge ==
    /\ exists
    /\ deletionTimestamp
    /\ ~stored.finalizer
    /\ exists' = FALSE
    /\ queued' = TRUE
    /\ UNCHANGED << stored, deletionTimestamp, secret, vm, last, machines, mapping,
                    healthy >>

Next == Reconcile \/ RequestDeletion \/ Purge

Spec == Init /\ [][Next]_vars

\* The mapping function on its own: the Machines of the API are any
\* well-formed set, and a KubevirtCluster event calls the function.
IndexInit ==
    /\ machines \in MachineSets
    /\ mapping = NoMapping
    /\ stored = FreshMachine
    /\ exists = TRUE
    /\ deletionTimestamp = FALSE
    /\ secret = FALSE
    /\ vm = FALSE
    /\ last = Summary(NewContext(stored, FALSE, FALSE, FALSE, AllOk), stored, FALSE)
    /\ queued = TRUE
    /\ healthy = FALSE

\* lines 346-349: a KubevirtCluster event is mapped to requests.
KubevirtClusterEvent ==
    \E ns \in Namespaces, owner \in ClusterNames \cup {NoOwner},
       lookup \in LookupAnswers, listOk \in BOOLEAN :
        LET o == [namespace |-> ns, owner |-> owner]
        IN  /\ mapping' = [called |-> TRUE, o |-> o, lookup |-> lookup,
                           listOk |-> listOk,
                           result |-> KubevirtClusterToKubevirtMachines(
                                          machines, o, lookup, listOk)]
            /\ UNCHANGED << stored, exists, deletionTimestamp, secret, vm, last,
                            machines, queued, healthy >>

IndexNext == KubevirtClusterEvent

IndexSpec == IndexInit /\ [][IndexNext]_vars

\* ------------------------------------------------------------------------
\* The dispatcher: when Reconcile is invoked again
\* ------------------------------------------------------------------------
\* Spec lets Reconcile be invoked at any time, with any answers of the
\* collaborators.  FairSpec invokes it as the dispatcher does: only for a
\* request in the queue, and every request in the queue is served.  Until
\* the collaborators have recovered they answer anything; from then on
\* every one of them succeeds.

\* What puts the request back in the queue when a call returns: a result
\* asking for a requeue, an error (retried with backoff), or a change of
\* the KubevirtMachine written by the call, which comes back as an update
\* event (line 339).  The derived secret and the VM are not watched
\* (lines 338-358).
Enqueued(c, before) ==
    \/ c.res # ZeroResult
    \/ c.rerr # NoErr
    \/ c.stored # before

\* Every collaborator succeeds; the VM has any of its addresses.
HealthyEnvs == { [AllOk EXCEPT !.addr = a] : a \in Addrs }

\* The dispatcher takes the request from the queue and invokes Reconcile.
Dispatch ==
    /\ queued
    /\ \E env \in (IF healthy THEN HealthyEnvs ELSE Envs) :
          \E c \in { ReconcileCall(stored, exists, deletionTimestamp, secret, vm, env) } :
              /\ stored' = c.stored
              /\ secret' = c.secret
              /\ vm' = c.vm
              /\ last' = [Summary(c, stored, TRUE) EXCEPT
                              !.retried = last.exit = "SetProviderIDFailed",
                              !.probed = last.probed \/ ProbeAnsweredTrue(last.trace)]
              /\ queued' = Enqueued(c, stored)
              /\ UNCHANGED << exists, deletionTimestamp, machines, mapping, healthy >>

\* The collaborators succeed from now on.  What a call was waiting for
\* without a requeue is an object the controller watches (the Cluster, the
\* owner Machine, the KubevirtCluster: lines 341-358), so the change puts
\* the request in the queue.
Recover ==
    /\ ~healthy
    /\ healthy' = TRUE
    /\ queued' = TRUE
    /\ UNCHANGED << stored, exists, deletionTimestamp, secret, vm, last, machines,
                    mapping >>

FairNext == Dispatch \/ Recover \/ RequestDeletion \/ Purge

\* A step of Dispatch: the only action of FairNext that takes a queued
\* request and leaves these three variables alone.
Served == queued /\ UNCHANGED << exists, deletionTimestamp, healthy >>

\* A call that changes the state can be dispatched exactly when the
\* request is queued.
DispatchEnabledWhenQueued == queued <=> ENABLED << Dispatch >>_vars

\* The dispatcher serves every request in its queue.  This is
\* WF_vars(Dispatch) written out, []<>~ENABLED <<Dispatch>>_vars \/
\* []<><<Dispatch>>_vars, with queued for the enabling condition
\* (DispatchEnabledWhenQueued) and Served for the step.
DispatchFairness == []<>~queued \/ []<><< Served >>_vars

\* The dispatcher serves every request in its queue, and the collaborators
\* recover.
FairSpec ==
    Init /\ [][FairNext]_vars /\ DispatchFairness /\ WF_vars(Recover)

\* ------------------------------------------------------------------------
\* Vocabulary of the properties
\* ------------------------------------------------------------------------
\* The last call loaded the KubevirtMachine, its owner Machine, the Cluster
\* and the KubevirtCluster, and installed the deferred patch.
Entered == last.called /\ last.existed /\ last.load = "ok"

\* The last call got past the finalizer gate.
PastFinalizerGate == Entered /\ last.loaded.finalizer

\* The last call took the normal path.
NormalPath == PastFinalizerGate /\ last.infraReady /\ ~last.deleting

\* The last call took the delete path.
DeletePath == PastFinalizerGate /\ last.infraReady /\ last.deleting

Ops(tr) == { tr[i].op : i \in DOMAIN tr }

Positions(tr, op) == { i \in DOMAIN tr : tr[i].op = op }

\* Calls to the SSH keys, the bootstrap secrets, the VM handle and the
\* workload cluster.
SshOps == {"IsPersistedToSecret", "FetchPersistedKeysFromSecret"}

SecretOps == {"GetDerivedSecret", "GetGenericSecret", "LookupValue",
              "CreateDerivedSecret"}

VMOps == {"NewMachine", "Exists", "Create", "IsBooted", "IsBootstrapped",
          "SetProviderID"}

WorkloadOps == {"GetKubeconfigSecret", "RESTConfigFromKubeConfig", "NewClient"}

ProvisioningOps == SshOps \cup SecretOps \cup VMOps \cup WorkloadOps

\* The reads every call starts with.
LoadOps == {"GetKubevirtMachine", "GetOwnerMachine", "GetClusterFromMetadata",
            "GetKubevirtCluster", "NewHelper"}

\* The last call ended with a patch, and that patch failed.
DeferredPatchFailed ==
    /\ last.trace # << >>
    /\ last.trace[Len(last.trace)].op = "PatchKubevirtMachine"
    /\ ~last.trace[Len(last.trace)].ok

\* The branch returned a zero result and no error, and the only error the
\* call can return is that of its failed deferred patch.
NoOpReturn ==
    /\ last.res = ZeroResult
    /\ last.err = NoErr
    /\ last.rerr # NoErr => DeferredPatchFailed /\ last.rerr = ErrPatch

\* ------------------------------------------------------------------------
\* C1  Finalizer before side effects
\* ------------------------------------------------------------------------
\* What a call that found the finalizer absent did, whatever it returned:
\* it added the finalizer, marked no condition, and made no SSH-key,
\* bootstrap-secret, VM or workload-client call.
FinalizerOnly ==
    /\ last.km.finalizer
    /\ last.marks = << >>
    /\ Ops(last.trace) = LoadOps \cup {"AddFinalizer", "PatchKubevirtMachine"}
    /\ last.hadVM = vm
    /\ last.hadSecret = secret

\* C1 as stated: a Reconcile call that finds the finalizer absent adds it
\* and returns at once with a zero result and no error, with no VM creation
\* and no SSH-key, bootstrap-secret, probe or workload-client call; every VM
\* Create happens in a call that loaded the Machine with the finalizer.
C1_AsStated ==
    /\ Entered /\ ~last.loaded.finalizer =>
          FinalizerOnly /\ last.res = ZeroResult /\ last.rerr = NoErr
    /\ last.called /\ "Create" \in Ops(last.trace) => last.loaded.finalizer

\* C1 amended: a Reconcile call that finds the finalizer absent adds it and
\* returns at once with a zero result, and with no error unless its deferred
\* patch fails (then it returns that patch error); the call makes no VM
\* creation and no SSH-key, bootstrap-secret, probe or workload-client call;
\* every VM Create happens in a call that loaded the Machine with the
\* finalizer.
C1_FinalizerBeforeSideEffects ==
    /\ Entered /\ ~last.loaded.finalizer => FinalizerOnly /\ NoOpReturn
    /\ last.called /\ "Create" \in Ops(last.trace) => last.loaded.finalizer

\* A call found the finalizer absent and added it.
C1_Witness ==
    Entered /\ ~last.loaded.finalizer /\ last.km.finalizer /\ stored.finalizer

\* ------------------------------------------------------------------------
\* C2  Deletion safety
\* ------------------------------------------------------------------------
DeletingCondition == FalseCondition(DeletingReason, ConditionSeverityInfo)

\* The immediate patch of the last call (a patch that is not its last call)
\* failed.
ImmediatePatchFailed ==
    \E i \in Positions(last.trace, "PatchKubevirtMachine") :
        i < Len(last.trace) /\ ~last.trace[i].ok

\* C2: on the delete path the finalizer is removed only after the patch
\* carrying VMProvisioned=False/Deleting has been persisted; when that
\* immediate patch fails Reconcile returns an error and the finalizer is
\* still present, in memory and as persisted.
C2_DeletionSafety ==
    /\ \A i \in Positions(last.trace, "RemoveFinalizer") :
          /\ last.trace[i].stored.conds[VMProvisionedCondition] = DeletingCondition
          /\ last.trace[i].stored.finalizer
          /\ \E j \in Positions(last.trace, "PatchKubevirtMachine") :
                j < i /\ last.trace[j].ok
    /\ DeletePath /\ ImmediatePatchFailed =>
          /\ last.rerr = ErrPatchWrapped
          /\ last.km.finalizer
          /\ stored.finalizer
    /\ DeletePath /\ ~stored.finalizer =>
          stored.conds[VMProvisionedCondition] = DeletingCondition

\* A call on the delete path removed the finalizer.
C2_Witness ==
    DeletePath /\ "RemoveFinalizer" \in Ops(last.trace) /\ ~stored.finalizer

\* ------------------------------------------------------------------------
\* C3  Monotonicity of bootstrapped
\* ------------------------------------------------------------------------
\* C3: once the bootstrapped flag is true no reconciliation sets it back to
\* false: the persisted flag never goes from true to false, and a call that
\* loaded it true returns with it true.
C3_BootstrappedMonotone ==
    [][ /\ stored.bootstrapped => stored'.bootstrapped
        /\ last'.called /\ last'.loaded.bootstrapped => last'.km.bootstrapped
      ]_vars

\* A call went through the bootstrap stage of a machine already bootstrapped.
C3_Witness ==
    /\ NormalPath
    /\ last.loaded.bootstrapped
    /\ last.loaded.providerID = NoProviderID
    /\ "IsBooted" \in Ops(last.trace)
    /\ last.exit \in {"WorkloadClientUnavailable", "SetProviderIDFailed", "Ready"}
    /\ stored.bootstrapped

\* ------------------------------------------------------------------------
\* C4  Idempotence of the normal path
\* ------------------------------------------------------------------------
\* The first of two calls in succession, in environment env.
FirstCall(env) ==
    ReconcileCall(stored, exists, deletionTimestamp, secret, vm, env)

\* The second call, in the same environment, on what the first one left.
SecondCall(env) ==
    Only({ ReconcileCall(c1.stored, exists, deletionTimestamp, c1.secret, c1.vm, env) :
           c1 \in { FirstCall(env) } })

\* A call in env takes the normal path.
TakesNormalPath(env) ==
    /\ exists
    /\ env.load = "ok"
    /\ stored.finalizer
    /\ env.infraReady
    /\ ~deletionTimestamp

\* The API answers the patches of a call alike: the external state is fixed
\* within a call too.
SteadyAPI(env) == env.stagePatchOk = env.patchOk

\* The successful creations of a call.
Creations(c) ==
    { i \in DOMAIN c.trace :
        c.trace[i].op \in {"Create", "CreateDerivedSecret"} /\ c.trace[i].ok }

\* C4: for every Machine state and every fixed external state, invoking the
\* normal path twice in succession leaves the same object state after the
\* second call as after the first (finalizer, providerID, bootstrapped,
\* ready, addresses, conditions), in memory and as persisted, and the second
\* call creates no derived secret and no VM.
C4_Idempotence ==
    \A env \in Envs :
        SteadyAPI(env) /\ TakesNormalPath(env) =>
            \A c1 \in { FirstCall(env) }, c2 \in { SecondCall(env) } :
                /\ c2.stored = c1.stored
                /\ c2.km = c1.km
                /\ Creations(c2) = {}

\* ------------------------------------------------------------------------
\* C5  Early exit of a provisioned machine
\* ------------------------------------------------------------------------
\* The last call took the normal path with providerID already set.
ProvisionedCall == NormalPath /\ last.loaded.providerID # NoProviderID

\* What such a call does, whatever it returns: ready and VMProvisioned are
\* forced true, nothing else of the object changes, and after the reads of
\* the entry sequence its only call is the deferred patch.
EarlyExit ==
    /\ last.km = [last.loaded EXCEPT !.ready = TRUE,
                                     !.conds[VMProvisionedCondition] = TrueCondition]
    /\ Ops(last.trace) = LoadOps \cup {"PatchKubevirtMachine"}
    /\ Cardinality(Positions(last.trace, "PatchKubevirtMachine")) = 1
    /\ last.trace[Len(last.trace)].op = "PatchKubevirtMachine"
    /\ last.hadVM = vm
    /\ last.hadSecret = secret

\* C5 as stated: for a Machine with providerID set, reconciliation forces
\* ready=true and VMProvisioned=True, returns a zero result with no error,
\* and makes no call other than the terminal status patch.
C5_AsStated ==
    ProvisionedCall => EarlyExit /\ last.res = ZeroResult /\ last.rerr = NoErr

\* C5 amended: for a Machine with providerID set, reconciliation forces
\* ready=true and VMProvisioned=True, returns a zero result, and no error
\* unless the terminal status patch fails (then it returns that patch
\* error), and makes no call other than the terminal status patch.
C5_EarlyExit == ProvisionedCall => EarlyExit /\ NoOpReturn

\* A moved machine (providerID set, ready false, no condition) was
\* reconciled.
C5_Witness ==
    /\ ProvisionedCall
    /\ ~last.loaded.ready
    /\ ~Has(last.loaded, VMProvisionedCondition)
    /\ stored.ready

\* ------------------------------------------------------------------------
\* C6  Conditions on waits and failures
\* ------------------------------------------------------------------------
\* The last call converged or completed the deletion.
Completed ==
    \/ NormalPath /\ last.km.providerID # NoProviderID
    \/ DeletePath /\ ~last.km.finalizer

\* The last call, past the finalizer gate, returned a wait, a timed requeue
\* or an error.
WaitOrFailure ==
    PastFinalizerGate /\ (last.res # ZeroResult \/ last.err # NoErr \/ ~Completed)

LastMark == last.marks[Len(last.marks)]

\* The exits that mark a False condition naming their reason.
ReasonOf ==
    [x \in {"WaitingForInfrastructure", "WaitingForControlPlane",
            "WaitingForBootstrapData", "BootstrapSecretFailed",
            "NotBootstrapped", "DeletePatchFailed"} |->
        CASE x = "WaitingForInfrastructure" ->
                 [type |-> VMProvisionedCondition, status |-> "False",
                  reason |-> WaitingForClusterInfrastructureReason]
          [] x = "WaitingForControlPlane" ->
                 [type |-> VMProvisionedCondition, status |-> "False",
                  reason |-> WaitingForControlPlaneAvailableReason]
          [] x \in {"WaitingForBootstrapData", "BootstrapSecretFailed"} ->
                 [type |-> VMProvisionedCondition, status |-> "False",
                  reason |-> WaitingForBootstrapDataReason]
          [] x = "NotBootstrapped" ->
                 [type |-> BootstrapExecSucceededCondition, status |-> "False",
                  reason |-> BootstrapFailedReason]
          [] x = "DeletePatchFailed" ->
                 [type |-> VMProvisionedCondition, status |-> "False",
                  reason |-> DeletingReason]]

\* The exits that return before any condition is marked.
UnmarkedExits ==
    {"SshKeysNotPersisted", "SshKeysFetchFailed", "NewMachineFailed",
     "CreateFailed", "NotBooted", "StageHelperFailed", "DeleteHelperFailed"}

\* The exits after the bootstrap stage started, which mark no condition for
\* their own wait or failure.
LateUnmarkedExits ==
    {"StagePatchFailed", "WorkloadClientUnavailable", "SetProviderIDFailed"}

\* C6 as stated: every exit past the finalizer gate that is a wait, a timed
\* requeue or an error has set a condition with the reason for that wait or
\* failure before returning.
C6_AsStated ==
    WaitOrFailure =>
        /\ last.marks # << >>
        /\ LastMark.status = "False"

\* C6 amended: a wait or failure exit sets a condition with its reason
\* before returning only when it is the infrastructure wait, a bootstrap
\* data wait, the bootstrap secret failure, the bootstrap probe failure or
\* the failed patch of the delete path.  The exits for SSH keys not
\* persisted, SSH key fetch failure, VM helper failure, VM creation failure,
\* VM not booted and patch helper failure mark no condition at all, and the
\* exits for the failed immediate patch, workload client unavailable and
\* provider-id registration failure mark none for their reason (the only
\* False mark of such a call is BootstrapExecSucceeded=False/Bootstrapping).
C6_ConditionsOnWaits ==
    WaitOrFailure =>
        /\ last.exit \in DOMAIN ReasonOf \cup UnmarkedExits \cup LateUnmarkedExits
        /\ last.exit \in DOMAIN ReasonOf =>
              /\ last.marks # << >>
              /\ LastMark = ReasonOf[last.exit]
              /\ last.km.conds[LastMark.type].status = "False"
              /\ last.km.conds[LastMark.type].reason = LastMark.reason
        /\ last.exit \in UnmarkedExits => last.marks = << >> /\ last.km = last.loaded
        /\ last.exit \in LateUnmarkedExits =>
              \A i \in DOMAIN last.marks :
                  last.marks[i].status = "False" =>
                      last.marks[i].reason = BootstrappingReason

\* The bootstrap secret could not be synthesized and the call marked
\* WaitingForBootstrapData.
C6_Witness ==
    /\ WaitOrFailure
    /\ last.exit = "BootstrapSecretFailed"
    /\ last.km.conds[VMProvisionedCondition].reason = WaitingForBootstrapDataReason

\* ------------------------------------------------------------------------
\* C7  Deferred status patch
\* ------------------------------------------------------------------------
NumPatches == Cardinality(Positions(last.trace, "PatchKubevirtMachine"))

\* The last call reached the immediate patch of the delete path or of the
\* stage that initialises BootstrapExecSucceeded.
ReachedImmediatePatch ==
    \/ last.exit \in {"DeletePatchFailed", "Deleted"}
    \/ /\ last.exit \in {"StagePatchFailed", "NotBootstrapped",
                         "WorkloadClientUnavailable", "SetProviderIDFailed",
                         "Ready"}
       /\ ~Has(last.loaded, BootstrapExecSucceededCondition)

\* C7 as stated: a call that has loaded the Machine, its owner Machine, the
\* Cluster and the infrastructure object persists the Machine exactly once,
\* at return time, whatever the branch or the error.
C7_AsStated ==
    Entered =>
        /\ NumPatches = 1
        /\ last.trace[Len(last.trace)].op = "PatchKubevirtMachine"

\* C7 amended: such a call issues the deferred patch exactly once, as its
\* last operation, whatever the branch or the error; the delete path and
\* the stage that initialises BootstrapExecSucceeded issue one immediate
\* patch before it, so the Machine is patched once or twice in a call; when
\* the deferred patch succeeds the persisted object is the one in memory at
\* return.  A call that returned before loading all four patches nothing.
C7_DeferredPatch ==
    /\ Entered =>
          /\ last.trace[Len(last.trace)].op = "PatchKubevirtMachine"
          /\ NumPatches = IF ReachedImmediatePatch THEN 2 ELSE 1
          /\ ~DeferredPatchFailed => stored = last.km
    /\ last.called /\ ~Entered => NumPatches = 0 /\ stored = last.loaded

\* A call that ended in an error issued its deferred patch.
C7_Witness ==
    /\ Entered
    /\ last.err = ErrCreateVM
    /\ NumPatches = 1
    /\ stored = last.km

\* ------------------------------------------------------------------------
\* C8  First error wins
\* ------------------------------------------------------------------------
\* C8: when the deferred patch fails, Reconcile returns the patch error if
\* and only if the branch produced no error; an error of the branch is the
\* one returned and the patch error does not replace it.
C8_FirstErrorWins ==
    Entered /\ DeferredPatchFailed =>
        /\ last.rerr = ErrPatch <=> last.err = NoErr
        /\ last.err # NoErr => last.rerr = last.err

\* The branch returned an error and the deferred patch failed too.
C8_Witness ==
    /\ Entered
    /\ DeferredPatchFailed
    /\ last.err = ErrCreateVM
    /\ last.rerr = ErrCreateVM

\* ------------------------------------------------------------------------
\* C9  The infrastructure gate precedes both paths
\* ------------------------------------------------------------------------
\* The last call found the finalizer present and the infrastructure not
\* ready.
InfrastructureWait == PastFinalizerGate /\ ~last.infraReady

\* What such a call does, whatever it returns: it marks VMProvisioned
\* False/WaitingForClusterInfrastructure and changes nothing else, keeps the
\* finalizer, and after the reads of the entry sequence its only call is the
\* deferred patch.
WaitsForInfrastructure ==
    /\ last.km = [last.loaded EXCEPT !.conds[VMProvisionedCondition] =
                      FalseCondition(WaitingForClusterInfrastructureReason,
                                     ConditionSeverityInfo)]
    /\ last.km.finalizer
    /\ stored.finalizer
    /\ Ops(last.trace) = LoadOps \cup {"PatchKubevirtMachine"}
    /\ NumPatches = 1
    /\ last.hadVM = vm
    /\ last.hadSecret = secret

\* C9 as stated: with the finalizer present and the infrastructure not
\* ready, Reconcile marks VMProvisioned=False/WaitingForClusterInfrastructure
\* and returns a zero result with no requeue and no error, marked for
\* deletion or not; it takes neither path: the finalizer is kept and no VM,
\* SSH-key or secret call is made.
C9_AsStated ==
    InfrastructureWait =>
        WaitsForInfrastructure /\ last.res = ZeroResult /\ last.rerr = NoErr

\* C9 amended: as stated, except that the call returns no error unless its
\* deferred patch fails (then it returns that patch error).
C9_InfrastructureGate ==
    InfrastructureWait => WaitsForInfrastructure /\ NoOpReturn

\* A machine marked for deletion waited for the infrastructure.
C9_Witness ==
    /\ InfrastructureWait
    /\ last.deleting
    /\ stored.conds[VMProvisionedCondition].reason =
           WaitingForClusterInfrastructureReason

\* ------------------------------------------------------------------------
\* C10  Scenario A: the bootstrap data wait
\* ------------------------------------------------------------------------
\* The last call took the normal path with providerID nil and no bootstrap
\* data reference on the owner Machine.
BootstrapDataWait ==
    NormalPath /\ last.loaded.providerID = NoProviderID /\ ~last.hasDataSecretName

\* What such a call does, whatever it returns: it marks VMProvisioned False
\* with WaitingForControlPlaneAvailable exactly when the machine is not a
\* control-plane machine and the control plane is not initialized, and with
\* WaitingForBootstrapData otherwise; it changes nothing else and makes no
\* SSH-key, secret or VM call.
WaitsForBootstrapData ==
    /\ last.km = [last.loaded EXCEPT !.conds[VMProvisionedCondition] =
                      FalseCondition(
                          IF ~last.isControlPlane /\ ~last.cpInitialized
                          THEN WaitingForControlPlaneAvailableReason
                          ELSE WaitingForBootstrapDataReason,
                          ConditionSeverityInfo)]
    /\ Ops(last.trace) = LoadOps \cup {"PatchKubevirtMachine"}
    /\ NumPatches = 1
    /\ last.hadVM = vm
    /\ last.hadSecret = secret

\* C10 as stated: such a call returns a zero result (no requeue, no error)
\* and makes no SSH-key, secret or VM call; the condition is
\* VMProvisioned=False/WaitingForControlPlaneAvailable exactly when the
\* machine is not a control-plane machine and ControlPlaneInitialized is not
\* True, and VMProvisioned=False/WaitingForBootstrapData otherwise.
C10_AsStated ==
    BootstrapDataWait =>
        WaitsForBootstrapData /\ last.res = ZeroResult /\ last.rerr = NoErr

\* C10 amended: as stated, except that the call returns no error unless its
\* deferred patch fails (then it returns that patch error).
C10_BootstrapDataWait ==
    BootstrapDataWait => WaitsForBootstrapData /\ NoOpReturn

\* Scenario A: a worker machine waited for the control plane.
C10_Witness ==
    /\ BootstrapDataWait
    /\ ~last.isControlPlane
    /\ ~last.cpInitialized
    /\ stored.conds[VMProvisionedCondition] =
           FalseCondition(WaitingForControlPlaneAvailableReason,
                          ConditionSeverityInfo)

\* ------------------------------------------------------------------------
\* Vocabulary of the scenarios
\* ------------------------------------------------------------------------
\* The last call asked the collaborator op and got the answer ok.
Answered(op, ok) ==
    \E i \in Positions(last.trace, op) : last.trace[i].ok = ok

\* The last call took the normal path with providerID nil.
Provisioning == NormalPath /\ last.loaded.providerID = NoProviderID

\* The branch returned requeue-after d and no error, and the only error the
\* call can return is that of its failed deferred patch.
RequeueReturn(d) ==
    /\ last.res = d
    /\ last.err = NoErr
    /\ last.rerr # NoErr => DeferredPatchFailed /\ last.rerr = ErrPatch

\* The last call left the Machine as it loaded it, in memory and as
\* persisted, and marked no condition.
MachineUntouched ==
    /\ last.km = last.loaded
    /\ stored = last.loaded
    /\ last.marks = << >>

\* ------------------------------------------------------------------------
\* C11  Scenario B: SSH keys not persisted
\* ------------------------------------------------------------------------
\* The last call, on the normal path with providerID nil and a bootstrap
\* data reference, found the cluster SSH keys not persisted.
SshKeysNotPersisted ==
    Provisioning /\ last.hasDataSecretName /\ Answered("IsPersistedToSecret", FALSE)

\* What such a call does, whatever it returns: it changes no condition and
\* no other field of the Machine and attempts no bootstrap-secret creation
\* and no VM creation.
WaitsForSshKeys ==
    /\ MachineUntouched
    /\ Ops(last.trace) \cap (SecretOps \cup VMOps \cup WorkloadOps) = {}
    /\ last.hadVM = vm
    /\ last.hadSecret = secret

\* C11 as stated: on the normal path with providerID nil and a bootstrap
\* data reference, if the SSH keys are not persisted the call returns
\* requeue-after exactly 10s with no error, changes no condition and no
\* other field of the Machine, and attempts no bootstrap-secret creation and
\* no VM creation.
C11_AsStated ==
    /\ Provisioning /\ last.hasDataSecretName => "IsPersistedToSecret" \in Ops(last.trace)
    /\ SshKeysNotPersisted =>
          WaitsForSshKeys /\ last.res = RequeueSshKeys /\ last.rerr = NoErr

\* C11 amended: as stated, except that the call returns no error unless its
\* deferred patch fails (then it returns that patch error along with the
\* 10s requeue).
C11_SshKeysWait ==
    /\ Provisioning /\ last.hasDataSecretName => "IsPersistedToSecret" \in Ops(last.trace)
    /\ SshKeysNotPersisted => WaitsForSshKeys /\ RequeueReturn(RequeueSshKeys)

\* Scenario B: a machine with a condition already set waited for the keys.
C11_Witness ==
    /\ SshKeysNotPersisted
    /\ last.res = RequeueSshKeys
    /\ Has(last.loaded, VMProvisionedCondition)
    /\ ~last.hadVM

\* ------------------------------------------------------------------------
\* C12  Scenario C: the boot wait
\* ------------------------------------------------------------------------
\* The boot-readiness probe of the last call answered false.
NotBooted == Provisioning /\ Answered("IsBooted", FALSE)

\* What such a call does to VMProvisioned, whatever it returns: nothing, in
\* memory and as persisted.
KeepsVMProvisioned ==
    /\ last.km.conds[VMProvisionedCondition] = last.loaded.conds[VMProvisionedCondition]
    /\ stored.conds[VMProvisionedCondition] = last.loaded.conds[VMProvisionedCondition]
    /\ \A i \in DOMAIN last.marks : last.marks[i].type # VMProvisionedCondition

\* VMProvisioned is marked True on the provisioning path only in a call
\* whose boot probe answered true.
MarkedProvisionedOnlyWhenBooted ==
    Provisioning /\ (\E i \in DOMAIN last.marks :
                        /\ last.marks[i].type = VMProvisionedCondition
                        /\ last.marks[i].status = "True")
        => Answered("IsBooted", TRUE)

\* C12 as stated: when the boot probe answers false the call returns
\* requeue-after 20s with no error and leaves VMProvisioned (status and
\* reason) as it was at the start of the call, for every prior value True,
\* False or absent; VMProvisioned is marked True by this stage only in a
\* call whose boot probe answers true.
C12_AsStated ==
    /\ NotBooted =>
          KeepsVMProvisioned /\ last.res = RequeueBoot /\ last.rerr = NoErr
    /\ MarkedProvisionedOnlyWhenBooted

\* C12 amended: as stated, except that the call returns no error unless its
\* deferred patch fails (then it returns that patch error along with the
\* 20s requeue).
C12_BootWait ==
    /\ NotBooted => KeepsVMProvisioned /\ RequeueReturn(RequeueBoot)
    /\ MarkedProvisionedOnlyWhenBooted

\* Scenario C: a VM that had booted before (VMProvisioned True) did not
\* answer the boot probe.
C12_Witness ==
    /\ NotBooted
    /\ last.hadVM
    /\ last.loaded.conds[VMProvisionedCondition] = TrueCondition
    /\ stored.conds[VMProvisionedCondition] = TrueCondition

\* ------------------------------------------------------------------------
\* C13  Scenario D: the bootstrap probe fails, then succeeds
\* ------------------------------------------------------------------------
\* The bootstrap probe of the last call answered false / true.
BootstrapProbeFailed == Provisioning /\ Answered("IsBootstrapped", FALSE)

BootstrapProbeSucceeded == Provisioning /\ Answered("IsBootstrapped", TRUE)

\* The address the VM answered in the last call.
AddressRead ==
    last.trace[Only(Positions(last.trace, "Address"))].address

\* C13: with the VM booted and bootstrapped=false, a call whose bootstrap
\* probe answers false ends with BootstrapExecSucceeded=False/BootstrapFailed
\* (severity Warning), bootstrapped still false, addresses unchanged and
\* requeue-after 10s; a call whose probe answers true ends with
\* bootstrapped=true, BootstrapExecSucceeded=True and addresses = [hostname =
\* machine name, internalIP = VM address, externalIP = VM address] in that
\* order.  The probe is made only with the VM booted and bootstrapped=false.
C13_BootstrapProbe ==
    /\ "IsBootstrapped" \in Ops(last.trace) =>
          /\ Provisioning
          /\ Answered("IsBooted", TRUE)
          /\ ~last.loaded.bootstrapped
    /\ BootstrapProbeFailed =>
          /\ last.km.conds[BootstrapExecSucceededCondition] =
                 [status |-> "False", reason |-> BootstrapFailedReason,
                  severity |-> ConditionSeverityWarning]
          /\ ~last.km.bootstrapped
          /\ ~stored.bootstrapped
          /\ last.km.addresses = last.loaded.addresses
          /\ stored.addresses = last.loaded.addresses
          /\ last.res = RequeueBootstrap
    /\ BootstrapProbeSucceeded =>
          /\ last.km.bootstrapped
          /\ last.km.conds[BootstrapExecSucceededCondition].status = "True"
          /\ Cardinality(Positions(last.trace, "Address")) = 1
          /\ last.km.addresses =
                 << [type |-> "Hostname", address |-> MachineName],
                    [type |-> "InternalIP", address |-> AddressRead],
                    [type |-> "ExternalIP", address |-> AddressRead] >>
          /\ ~DeferredPatchFailed => stored = last.km

\* Scenario D: the probe succeeded in a call that loaded the condition a
\* failed probe had left, and the result was persisted.
C13_Witness ==
    /\ BootstrapProbeSucceeded
    /\ last.loaded.conds[BootstrapExecSucceededCondition].reason = BootstrapFailedReason
    /\ last.loaded.addresses = << >>
    /\ stored.bootstrapped
    /\ stored.conds[BootstrapExecSucceededCondition] = TrueCondition
    /\ stored.addresses # << >>

\* ------------------------------------------------------------------------
\* C14  Scenario E: the workload client is unavailable
\* ------------------------------------------------------------------------
\* Building the workload-cluster client failed in the last call: the
\* kubeconfig secret was not found or had no value key, the kubeconfig did
\* not parse, or the client could not be constructed.
WorkloadClientFailed ==
    /\ Provisioning
    /\ "GetKubeconfigSecret" \in Ops(last.trace)
    /\ \/ \E op \in WorkloadOps : Answered(op, FALSE)
       \/ "RESTConfigFromKubeConfig" \notin Ops(last.trace)

\* What such a call does, whatever it returns: providerID stays nil, ready
\* is not set, and SetProviderID is not called.
WaitsForWorkloadClient ==
    /\ last.km.providerID = NoProviderID
    /\ stored.providerID = NoProviderID
    /\ ~last.km.ready
    /\ ~stored.ready
    /\ "SetProviderID" \notin Ops(last.trace)

\* C14 as stated: when building the workload-cluster client fails for any
\* reason, the call returns requeue-after 10s with nil error, providerID
\* remains nil, ready is not set to true, and SetProviderID is not called.
C14_AsStated ==
    WorkloadClientFailed =>
        WaitsForWorkloadClient /\ last.res = RequeueWorkloadClient /\ last.rerr = NoErr

\* C14 amended: as stated, except that the call returns a nil error unless
\* its deferred patch fails (then it returns that patch error along with
\* the 10s requeue).
C14_WorkloadClientWait ==
    WorkloadClientFailed =>
        WaitsForWorkloadClient /\ RequeueReturn(RequeueWorkloadClient)

\* Scenario E: the kubeconfig secret had no value key, after the bootstrap
\* had succeeded.
C14_Witness ==
    /\ WorkloadClientFailed
    /\ Answered("GetKubeconfigSecret", TRUE)
    /\ "RESTConfigFromKubeConfig" \notin Ops(last.trace)
    /\ last.res = RequeueWorkloadClient
    /\ stored.bootstrapped
    /\ stored.providerID = NoProviderID

\* ------------------------------------------------------------------------
\* C15  Scenario F: the provider-id registration fails, then succeeds
\* ------------------------------------------------------------------------
\* SetProviderID failed / succeeded in the last call.
RegistrationFailed == Provisioning /\ Answered("SetProviderID", FALSE)

RegistrationSucceeded == Provisioning /\ Answered("SetProviderID", TRUE)

\* A failed registration leaves providerID nil and ready unchanged.
LeavesUnregistered ==
    /\ last.km.providerID = NoProviderID
    /\ stored.providerID = NoProviderID
    /\ last.km.ready = last.loaded.ready
    /\ stored.ready = last.loaded.ready

\* A successful registration sets providerID to the identifier returned,
\* ready=true and VMProvisioned=True, and returns a zero result.
Registers ==
    /\ last.km.providerID = TheProviderID
    /\ last.km.ready
    /\ last.km.conds[VMProvisionedCondition].status = "True"
    /\ last.res = ZeroResult
    /\ ~DeferredPatchFailed => stored = last.km

\* providerID is set only in a call where SetProviderID succeeded.
ProviderIDOnlyByRegistration ==
    last.called /\ ( \/ last.km.providerID # last.loaded.providerID
                     \/ stored.providerID # last.loaded.providerID )
        => RegistrationSucceeded

\* C15 as stated: a call in which SetProviderID fails returns requeue-after
\* 5s with nil error and leaves providerID nil and ready unchanged; a call
\* in which it succeeds sets providerID to the returned identifier,
\* ready=true and VMProvisioned=True and returns a zero result; providerID
\* is set only in a call where SetProviderID succeeded.
C15_AsStated ==
    /\ RegistrationFailed =>
          LeavesUnregistered /\ last.res = RequeueProviderID /\ last.rerr = NoErr
    /\ RegistrationSucceeded => Registers
    /\ ProviderIDOnlyByRegistration

\* C15 amended: as stated, except that the call in which SetProviderID
\* fails returns a nil error unless its deferred patch fails (then it
\* returns that patch error along with the 5s requeue).
C15_ProviderIDRegistration ==
    /\ RegistrationFailed => LeavesUnregistered /\ RequeueReturn(RequeueProviderID)
    /\ RegistrationSucceeded => Registers
    /\ ProviderIDOnlyByRegistration

\* Scenario F: the registration succeeded in the call that followed one in
\* which it had failed.
C15_Witness ==
    /\ last.retried
    /\ RegistrationSucceeded
    /\ ~last.loaded.ready
    /\ stored.providerID = TheProviderID
    /\ stored.ready

\* ------------------------------------------------------------------------
\* C16  Condition transition discipline
\* ------------------------------------------------------------------------
\* LastTransitionTime of condition t changed in the last call.
TransitionTimeChanged(t) == last.ltt[t] = Now

Synthesized == "GetDerivedSecret" \in Ops(last.trace)

SynthesizerSucceeded == Synthesized /\ last.exit # "BootstrapSecretFailed"

\* The creations of the derived secret the API accepted in the last call.
SecretsCreated ==
    { i \in Positions(last.trace, "CreateDerivedSecret") : last.trace[i].ok }

\* The derived secret exists: success and no API write.
ShortCircuits ==
    Synthesized /\ last.hadSecret =>
        /\ SynthesizerSucceeded
        /\ Ops(last.trace) \cap SecretOps = {"GetDerivedSecret"}
        /\ secret

\* The generic secret is missing or has no value key: failure, nothing
\* created.
FailsWithoutGenericValue ==
    Synthesized /\ (Answered("GetGenericSecret", FALSE) \/ Answered("LookupValue", FALSE)) =>
        /\ ~SynthesizerSucceeded
        /\ "CreateDerivedSecret" \notin Ops(last.trace)
        /\ ~secret

\* The derived secret is absent, the generic secret has its value and the
\* API accepts the creation: success, with the derived secret created once
\* with the generic value under userdata and the KubevirtMachine as owner.
CreatesDerivedSecret ==
    Synthesized /\ ~last.hadSecret /\ SecretsCreated # {} =>
        /\ SynthesizerSucceeded
        /\ secret
        /\ Cardinality(SecretsCreated) = 1
        /\ \A i \in SecretsCreated :
              /\ last.trace[i].object.data.userdata = GenericValue
              /\ last.trace[i].object.owner = MachineName

\* Over the calls the derived secret is created at most once and is not
\* written again once it exists.
CreatedAtMostOnce ==
    /\ last.hadSecret => secret /\ "CreateDerivedSecret" \notin Ops(last.trace)
    /\ SecretsCreated # {} => ~last.hadSecret /\ Answered("LookupValue", TRUE)

\* C17: ensure is idempotent.  When the derived secret exists it returns
\* success and makes no API write; otherwise it fails when the generic
\* secret is missing or has no value key, and on success creates the
\* derived secret with the generic secret's value bytes under key userdata
\* and an owner reference to the KubevirtMachine; over any sequence of calls
\* the derived secret is created at most once and its content is never
\* rewritten.
C17_SecretSynthesizer ==
    /\ ShortCircuits
    /\ FailsWithoutGenericValue
    /\ CreatesDerivedSecret
    /\ CreatedAtMostOnce

\* ------------------------------------------------------------------------
\* C18  The Cluster-to-Machines index
\* ------------------------------------------------------------------------
\* The last mapping call found no owning Cluster, or its lookup or its
\* listing failed.
LookupOrListingFailed ==
    \/ mapping.o.owner = NoOwner
    \/ mapping.lookup # "ok"
    \/ ~mapping.listOk

\* The Machines in the infra object's namespace labelled with the owning
\* Cluster's name, and those of them with an infrastructure reference.
Labelled ==
    { m \in machines : m.namespace = mapping.o.namespace /\ m.cluster = mapping.o.owner }

Referring == { m \in Labelled : m.infrastructureRef # EmptyName }

\* The result is empty when the owning Cluster is not found or the lookup
\* or the listing fails.
EmptyOnFailure ==
    mapping.called /\ LookupOrListingFailed => mapping.result = << >>

\* Otherwise there is one request for each labelled Machine with an
\* infrastructure reference, in its namespace, and none for the others.
OneRequestPerMachine ==
    mapping.called /\ ~LookupOrListingFailed =>
        /\ Len(mapping.result) = Cardinality(Referring)
        /\ \A i \in DOMAIN mapping.result :
              mapping.result[i].namespace = mapping.o.namespace
        /\ \A m \in Referring :
              Cardinality({ i \in DOMAIN mapping.result :
                              mapping.result[i] = Request(m) }) = 1

\* Each emitted identity is one the machine reconciler can load as the
\* KubevirtMachine of the Machine it was emitted for.
LoadableRequests ==
    mapping.called /\ ~LookupOrListingFailed =>
        /\ \A i \in DOMAIN mapping.result :
              mapping.result[i] \in KubevirtMachineKeys(machines)
        /\ { mapping.result[i] : i \in DOMAIN mapping.result } =
              KubevirtMachineKeys(Referring)

\* C18: given a cluster-level infrastructure object, the result is empty
\* when the owning Cluster is not found or the lookup or the listing fails;
\* otherwise it holds one request for each Machine in the infra object's
\* namespace labelled with that Cluster's name that carries a non-empty
\* infrastructure reference, and none for a Machine without one; each
\* emitted identity is one the machine reconciler can load as its
\* KubevirtMachine.
C18_ClusterToMachines ==
    /\ EmptyOnFailure
    /\ OneRequestPerMachine
    /\ LoadableRequests

\* ------------------------------------------------------------------------
\* C19  The sticky bootstrap probe
\* ------------------------------------------------------------------------
\* The last call invoked the bootstrap probe.
Probed == "IsBootstrapped" \in Ops(last.trace)

\* C19 as stated: once a bootstrap probe has succeeded for a Machine, the
\* probe is never called again in any later Reconcile call, including when
\* the call that observed the success then exited early or its deferred
\* patch failed.
C19_AsStated == last.probed => ~Probed

\* C19 amended: once a bootstrap probe has succeeded and bootstrapped=true
\* has been persisted, the probe is never called again in any later
\* Reconcile call; the call that observes the success persists the flag
\* whenever its deferred patch succeeds, including when it then exits early
\* (workload client unavailable, provider-id registration failure).  When
\* the deferred patch of that call fails the flag is not persisted, and the
\* only calls that probe after a success are calls that loaded
\* bootstrapped=false.
C19_StickyProbe ==
    /\ last.called /\ last.loaded.bootstrapped => ~Probed
    /\ Answered("IsBootstrapped", TRUE) /\ ~DeferredPatchFailed => stored.bootstrapped
    /\ Answered("IsBootstrapped", TRUE) /\ DeferredPatchFailed => ~stored.bootstrapped
    /\ last.probed /\ Probed => ~last.loaded.bootstrapped

\* After a probe had succeeded in a call that exited early, a later call
\* went through the bootstrap stage without probing.
C19_Witness ==
    /\ last.probed
    /\ Provisioning
    /\ last.loaded.bootstrapped
    /\ Answered("IsBooted", TRUE)
    /\ ~Probed
    /\ "SetProviderID" \in Ops(last.trace)

\* ------------------------------------------------------------------------
\* C20  Early visibility of the bootstrap start
\* ------------------------------------------------------------------------
\* The VM answered the boot probe in the last call and the call got its
\* patch helper; BootstrapExecSucceeded had / had never been set.
ReachedBootstrapStage ==
    /\ Provisioning
    /\ Answered("IsBooted", TRUE)
    /\ last.exit # "StageHelperFailed"

BootstrapNeverStarted ==
    ReachedBootstrapStage /\ ~Has(last.loaded, BootstrapExecSucceededCondition)

BootstrapStartedBefore ==
    ReachedBootstrapStage /\ Has(last.loaded, BootstrapExecSucceededCondition)

\* C20: in a call where the VM is booted and BootstrapExecSucceeded has
\* never been set, a patch carrying VMProvisioned=True and
\* BootstrapExecSucceeded=False/Bootstrapping is persisted before the
\* bootstrap probe is invoked; if that immediate patch fails the call
\* returns an error and the probe is not invoked.  When the condition is
\* already present no immediate patch is issued at this stage.
C20_EarlyVisibility ==
    /\ BootstrapNeverStarted =>
          /\ NumPatches = 2
          /\ \A i \in Positions(last.trace, "IsBootstrapped") :
                /\ last.trace[i].stored.conds[VMProvisionedCondition].status = "True"
                /\ last.trace[i].stored.conds[BootstrapExecSucceededCondition] =
                       [status |-> "False", reason |-> BootstrappingReason,
                        severity |-> ConditionSeverityInfo]
                /\ \E j \in Positions(last.trace, "PatchKubevirtMachine") :
                      j < i /\ last.trace[j].ok
          /\ ImmediatePatchFailed =>
                /\ last.err = ErrPatchWrapped
                /\ last.rerr = ErrPatchWrapped
                /\ ~Probed
          /\ ~ImmediatePatchFailed /\ ~last.loaded.bootstrapped => Probed
    /\ BootstrapStartedBefore =>
          /\ NumPatches = 1
          /\ ~ImmediatePatchFailed

\* The bootstrap start was persisted before a probe that then failed.
C20_Witness ==
    /\ BootstrapNeverStarted
    /\ Answered("IsBootstrapped", FALSE)
    /\ NumPatches = 2
    /\ DeferredPatchFailed
    /\ stored.conds[BootstrapExecSucceededCondition].reason = BootstrappingReason

\* ------------------------------------------------------------------------
\* C21  At most one VM
\* ------------------------------------------------------------------------
\* Create events of the last call.
Creates == Positions(last.trace, "Create")

\* The event before position i is the handle reporting that the VM does
\* not exist.
ReportedAbsent(i) ==
    /\ i > 1
    /\ last.trace[i - 1].op = "Exists"
    /\ ~last.trace[i - 1].ok

\* The Create at position i failed: the call stops there, with the error of
\* the Create as the error Reconcile returns, and the VM still absent.
FailedCreateReturned(i) ==
    /\ last.exit = "CreateFailed"
    /\ last.res = ZeroResult
    /\ last.err = ErrCreateVM
    /\ last.rerr = ErrCreateVM
    /\ Len(last.trace) = i + 1
    /\ last.trace[i + 1].op = "PatchKubevirtMachine"
    /\ ~vm

\* C21: in every call of any sequence of calls, Create is invoked at most
\* once, only right after the VM handle reported that the VM does not exist,
\* and never for a Machine whose VM exists; a VM that exists stays; a failed
\* Create ends the call with its error, without another Create.
C21_AtMostOneVM ==
    /\ Cardinality(Creates) <= 1
    /\ \A i \in Creates :
          /\ ~last.hadVM
          /\ ReportedAbsent(i)
          /\ last.trace[i].ok => vm
          /\ ~last.trace[i].ok => FailedCreateReturned(i)
    /\ last.hadVM => vm
    /\ \A i \in Positions(last.trace, "Exists") :
          last.trace[i].ok = last.hadVM

\* A call that follows a timed requeue, finds the VM existing, asks the
\* handle, creates nothing, and whose deferred patch fails.
C21_Witness ==
    /\ last.retried
    /\ last.hadVM
    /\ "Exists" \in Ops(last.trace)
    /\ Creates = {}
    /\ DeferredPatchFailed

\* ------------------------------------------------------------------------
\* C22  Two-phase deletion is final
\* ------------------------------------------------------------------------
\* The last call ran on a record marked for deletion.
CalledOnDeleting == Entered /\ last.deleting

\* C22: a call on a Machine whose deletion timestamp is set never adds the
\* finalizer; a record marked for deletion that it loaded without the
\* finalizer is still without it, in memory and as persisted, when the
\* call returns.
C22_TwoPhaseDeletionFinal ==
    CalledOnDeleting =>
        /\ "AddFinalizer" \notin Ops(last.trace)
        /\ ~last.loaded.finalizer => ~last.km.finalizer /\ ~stored.finalizer

\* The delete path had removed the finalizer and persisted the removal with
\* the Deleting condition; the record was not yet purged, and the last call
\* added the finalizer back and persisted it.
C22_FinalizerAddedBack ==
    /\ CalledOnDeleting
    /\ ~last.loaded.finalizer
    /\ last.loaded.conds[VMProvisionedCondition] = DeletingCondition
    /\ "AddFinalizer" \in Ops(last.trace)
    /\ stored.finalizer
    /\ exists

\* ------------------------------------------------------------------------
\* C23  Readiness invariant
\* ------------------------------------------------------------------------
\* ready implies providerID set, and providerID set implies bootstrapped.
ReadinessOrder(km) ==
    /\ km.ready => km.providerID # NoProviderID
    /\ km.providerID # NoProviderID => km.bootstrapped

\* From km to km2, ready is not taken back and a providerID that is set is
\* kept as it is.
ReadinessKept(km, km2) ==
    /\ km.ready => km2.ready
    /\ km.providerID # NoProviderID => km2.providerID = km.providerID

\* A call that loaded a Machine with its providerID set did not register a
\* provider id again.
RegisteredOnce ==
    last.called /\ last.loaded.providerID # NoProviderID =>
        "SetProviderID" \notin Ops(last.trace)

\* C23: in every state, of the Machine as persisted and of the Machine in
\* memory when the last call returned, ready implies providerID set and
\* providerID set implies bootstrapped; no call takes ready back to false,
\* nor clears, changes or registers again a providerID that is set, in
\* memory or as persisted.
C23_ReadinessInvariant ==
    /\ [](/\ ReadinessOrder(stored)
          /\ ReadinessOrder(last.km)
          /\ ReadinessKept(last.loaded, last.km)
          /\ RegisteredOnce)
    /\ [][ReadinessKept(stored, stored')]_vars

\* The call that registered the provider id: it loaded a Machine that was
\* not ready and had no providerID, and left it ready, as persisted.
C23_Witness ==
    /\ last.exit = "Ready"
    /\ ~last.loaded.ready
    /\ last.loaded.providerID = NoProviderID
    /\ stored.ready
    /\ stored.providerID = TheProviderID
    /\ stored.bootstrapped

\* ------------------------------------------------------------------------
\* C24  Convergence
\* ------------------------------------------------------------------------
\* The Machine as persisted has its providerID, is ready, and has both
\* conditions True.
Converged ==
    /\ stored.providerID # NoProviderID
    /\ stored.ready
    /\ stored.conds[VMProvisionedCondition] = TrueCondition
    /\ stored.conds[BootstrapExecSucceededCondition] = TrueCondition

\* A call on the converged Machine, with the collaborators succeeding,
\* leaves the Machine as it is and returns a zero result and no error.
ConvergedIsStable ==
    healthy /\ Converged /\ ~deletionTimestamp /\ last' # last =>
        /\ stored' = stored
        /\ last'.res = ZeroResult
        /\ last'.rerr = NoErr

\* C24: with every queued request served and the collaborators succeeding
\* from some point on, a Machine that is not marked for deletion eventually
\* has providerID set, ready=true, VMProvisioned=True and
\* BootstrapExecSucceeded=True (unless it is marked for deletion first), and
\* every later call leaves that state unchanged and returns a zero result.
C24_Convergence ==
    /\ ~deletionTimestamp ~> (deletionTimestamp \/ Converged)
    /\ [][ConvergedIsStable]_vars

\* The collaborators succeed, the Machine is not marked for deletion and
\* has no providerID, and nothing invokes Reconcile again: the last call
\* created the derived secret, was told that it failed, marked the
\* condition the Machine already had, and returned a zero result and no
\* error, so that no requeue, no retry and no update event follows.
C24_Stalled ==
    /\ healthy
    /\ ~queued
    /\ exists
    /\ ~deletionTimestamp
    /\ stored.providerID = NoProviderID
    /\ ~stored.ready
    /\ last.exit = "BootstrapSecretFailed"
    /\ ~last.hadSecret
    /\ secret

\* ------------------------------------------------------------------------
\* C25  Deletion completes
\* ------------------------------------------------------------------------
\* The record is marked for deletion and carries the finalizer.
AwaitingCleanup == exists /\ deletionTimestamp /\ stored.finalizer

\* The delete path made no VM handle, SSH, secret or workload-client call.
DeleteMakesNoExternalCall ==
    DeletePath => Ops(last.trace) \cap ProvisioningOps = {}

\* C25: with every queued request served and the collaborators (the
\* infrastructure, the reads, the patches) succeeding from some point on, a
\* Machine that is marked for deletion and carries the finalizer eventually
\* has the finalizer removed as persisted, whatever stage it was in; the
\* delete path makes no VM handle, SSH or secret call.
C25_DeletionCompletes ==
    /\ AwaitingCleanup ~> ~stored.finalizer
    /\ []DeleteMakesNoExternalCall

\* The delete path has removed the finalizer, as persisted, of a Machine
\* whose VM was created and which was neither bootstrapped nor registered.
C25_Witness ==
    /\ healthy
    /\ deletionTimestamp
    /\ last.exit = "Deleted"
    /\ last.loaded.finalizer
    /\ ~stored.finalizer
    /\ vm
    /\ ~stored.bootstrapped
    /\ stored.providerID = NoProviderID

====
